---- MODULE Spec2Model ----
(***************************************************************************)
(* stack-inspector.py: a gdb command that walks the call stack of the      *)
(* debuggee and prints, for every frame of a requested range, a header,    *)
(* the pc/sp/fp registers and the arguments and local variables in scope,  *)
(* largest first.                                                          *)
(*                                                                         *)
(* The debuggee is modelled by what gdb reports about it: the stack is a   *)
(* sequence of program counters, innermost first, and debuginfo maps a     *)
(* program counter to what gdb knows there (line table, lexical blocks,    *)
(* symbols).  Console output is the sequence of printed lines.             *)
(***************************************************************************)
EXTENDS Integers, Sequences, FiniteSets, TLC

VARIABLES
    debuginfo,   \* pc -> what gdb knows at that pc (see FrameInfo)
    stack,       \* explicit frames of the debuggee, innermost first: a sequence of pcs
    recursion,   \* further activations of RecPc innermost of the explicit frames
    argv,        \* gdb.string_to_argv(arg) of the last command: a sequence of arguments
    status,      \* "idle" | "returned" | "raised": how the last command ended
    out,         \* the lines the last command printed, in order
    calls,       \* the calls of analyze_frame the last command made, in order
    ncalls,      \* how many calls of analyze_frame the last command made
    lastnr       \* frame_nr of its last call of analyze_frame, -1 when it made none

vars == <<debuginfo, stack, recursion, argv, status, out, calls, ncalls, lastnr>>

-----------------------------------------------------------------------------
(* Bounds of the model *)

MaxFrames == 3        \* explicit stack depth
MaxArg == 2           \* command arguments evaluate to -MaxArg..MaxArg
MaxSyms == 2          \* symbols declared in the blocks of the frame under study
MaxLocalBlocks == 2   \* nested local blocks of the frame under study

(* Program constants *)

DefaultFEnd == 999999   \* fend = 999999

Max(a, b) == IF a >= b THEN a ELSE b
Min(a, b) == IF a <= b THEN a ELSE b

-----------------------------------------------------------------------------
(* gdb's view of the debuggee *)

\* gdb.SYMBOL_LOC_* address classes that matter here
SYMBOL_LOC_STATIC == "LOC_STATIC"
SYMBOL_LOC_COMPUTED == "LOC_COMPUTED"
SYMBOL_LOC_TYPEDEF == "LOC_TYPEDEF"

Types == {"int", "double"}

\* gdb.Type.sizeof
Sizeof(type) ==
    CASE type = "char" -> 1
      [] type = "int" -> 4
      [] type = "float" -> 4
      [] type = "double" -> 8
      [] type = "buf" -> 64

\* gdb.Symbol: is_variable is false for an argument (gdb's sympy_is_variable),
\* and only symbols with storage are variables.
Sym(name, type, is_arg, is_var, cls) ==
    [name |-> name, type |-> type, is_argument |-> is_arg,
     is_variable |-> is_var, addr_class |-> cls]

Arg(name, type) == Sym(name, type, TRUE, FALSE, SYMBOL_LOC_COMPUTED)
StaticArg(name, type) == Sym(name, type, TRUE, FALSE, SYMBOL_LOC_STATIC)
Local(name, type) == Sym(name, type, FALSE, TRUE, SYMBOL_LOC_COMPUTED)
StaticVar(name, type) == Sym(name, type, FALSE, TRUE, SYMBOL_LOC_STATIC)
Typedef(name, type) == Sym(name, type, FALSE, FALSE, SYMBOL_LOC_TYPEDEF)

\* gdb.Block
Block(is_global, is_static, symbols) ==
    [is_global |-> is_global, is_static |-> is_static, symbols |-> symbols]

LocalBlock(symbols) == Block(FALSE, FALSE, symbols)
StaticBlock(symbols) == Block(FALSE, TRUE, symbols)
GlobalBlock(symbols) == Block(TRUE, FALSE, symbols)

\* What gdb knows at a pc: symtab is find_sal().symtab being set, block_ok is
\* frame.block() not raising RuntimeError, blocks is the chain from the
\* innermost block along superblock.  Where symtab is set, function is the
\* name of frame.function(), taken to be there; pc() and read_register() are
\* taken not to fail.
FrameInfo(function, symtab, block_ok, blocks) ==
    [function |-> function, symtab |-> symtab, block_ok |-> block_ok, blocks |-> blocks]

\* The debuggee of the driver's specification: one entry per pc its stack can hold.
Program ==
    [pc \in {"main", "recurse", "libc", "stripped", "handler"} |->
        CASE pc = "main" ->
                FrameInfo("main", TRUE, TRUE,
                    << LocalBlock(<< Local("i", "int"), Local("buf", "buf") >>),
                       LocalBlock(<< Arg("argc", "int"), Arg("args", "double") >>),
                       StaticBlock(<< StaticVar("cache", "buf") >>),
                       GlobalBlock(<< Local("tls", "double") >>) >>)
          [] pc = "recurse" ->
                FrameInfo("recurse", TRUE, TRUE,
                    << LocalBlock(<< Local("n", "double") >>),
                       LocalBlock(<< Arg("n", "int"), Local("pad", "float") >>),
                       StaticBlock(<< >>),
                       GlobalBlock(<< >>) >>)
          [] pc = "libc" ->
                FrameInfo("", FALSE, FALSE, << >>)
          [] pc = "stripped" ->
                FrameInfo("", FALSE, TRUE,
                    << LocalBlock(<< Arg("fd", "int") >>),
                       StaticBlock(<< >>),
                       GlobalBlock(<< >>) >>)
          [] pc = "handler" ->
                FrameInfo("handler", TRUE, FALSE,
                    << LocalBlock(<< Arg("sig", "int") >>) >>)]

\* the function that recurses when the debuggee's stack runs deep
RecPc == "recurse"

-----------------------------------------------------------------------------
(* Frames.  A gdb.Frame is identified by its level: 0 is the selected frame *)
(* and older() of level d is level d+1.                                    *)

None == -1

Depth == recursion + Len(stack)

\* the pc of the frame at a level: frame.pc()
FramePc(frame) ==
    IF frame < recursion THEN RecPc ELSE stack[frame - recursion + 1]

\* frame.older()
Older(frame) == IF frame + 1 < Depth THEN frame + 1 ELSE None

\* gdb.selected_frame() raises gdb.error when there is no stack
HasSelectedFrame == Depth > 0

-----------------------------------------------------------------------------
(* Printed lines *)

Line(kind, nr, name, size, type) ==
    [kind |-> kind, nr |-> nr, name |-> name, size |-> size, type |-> type]

NoStackLine == Line("nostack", 0, "", 0, "")
BlankLine == Line("blank", 0, "", 0, "")
HeaderLine(frame_nr, function) == Line("header", frame_nr, function, 0, "")
FallbackLine(frame_nr) == Line("fallback", frame_nr, "", 0, "")
RegisterLines(pc) ==
    << Line("pc", 0, pc, 0, ""), Line("sp", 0, pc, 0, ""), Line("fp", 0, pc, 0, "") >>
NoBlockLine == Line("noblock", 0, "", 0, "")
SymbolLine(e) == Line("symbol", 0, e.name, e.size, e.typename)

-----------------------------------------------------------------------------
(* analyze_frame *)

\* the filter of lines 65-66
IsOnStack(symbol) ==
    symbol.is_argument
        \/ (symbol.is_variable /\ symbol.addr_class # SYMBOL_LOC_STATIC)

\* block.is_global or block.is_static
IsFileLevel(block) == block.is_global \/ block.is_static

\* symbol.name not in symbols, symbols being a dict kept as the sequence of
\* its entries in insertion order
HasName(symbols, name) == \E i \in 1..Len(symbols) : symbols[i].name = name

\* The entry of a name in symbols: Symbol(symbol.type.sizeof, symbol.type).
\* block and symbol are not in the program: they remember which declaration
\* the entry was made from (the chain index of its block, and the gdb.Symbol).
Entry(b, symbol) ==
    [name |-> symbol.name, size |-> Sizeof(symbol.type), typename |-> symbol.type,
     block |-> b, symbol |-> symbol]

\* mutant: the entry of a name is overwritten by every later declaration
Remember_LastWins(symbols, b, symbol) ==
    IF HasName(symbols, symbol.name)
    THEN [i \in 1..Len(symbols) |->
            IF symbols[i].name = symbol.name THEN Entry(b, symbol) ELSE symbols[i]]
    ELSE Append(symbols, Entry(b, symbol))

\* lines 67-68: if symbol.name not in symbols: symbols[symbol.name] = ...
Remember(symbols, b, symbol) ==
    IF HasName(symbols, symbol.name) THEN symbols
    ELSE Append(symbols, Entry(b, symbol))

\* line 61: for symbol in block, block being the b-th of the chain
RECURSIVE ScanBlock(_, _, _)
ScanBlock(syms, b, symbols) ==
    IF syms = <<>> THEN symbols
    ELSE ScanBlock(Tail(syms), b,
                   IF IsOnStack(Head(syms)) THEN Remember(symbols, b, Head(syms))
                   ELSE symbols)

\* lines 59-70: while block: ... block = block.superblock, from the b-th
\* block of the chain on
RECURSIVE CollectSymbols(_, _, _)
CollectSymbols(blocks, b, symbols) ==
    IF b > Len(blocks) THEN symbols
    ELSE CollectSymbols(blocks, b + 1,
                        IF ~IsFileLevel(blocks[b])
                        THEN ScanBlock(blocks[b].symbols, b, symbols)
                        ELSE symbols)

\* sorted(..., key=size, reverse=True): Python's sort is stable, and with
\* reverse=True elements of equal key keep their original order.
\* mutant: reverse=True forgotten, the smallest comes first
RECURSIVE InsertBySize_Ascending(_, _)
InsertBySize_Ascending(sorted, e) ==
    IF sorted = <<>> THEN <<e>>
    ELSE IF Head(sorted).size <= e.size
         THEN <<Head(sorted)>> \o InsertBySize_Ascending(Tail(sorted), e)
         ELSE <<e>> \o sorted

\* mutant: an ascending sort reversed afterwards, which turns ties around
RECURSIVE InsertBySize_TiesReversed(_, _)
InsertBySize_TiesReversed(sorted, e) ==
    IF sorted = <<>> THEN <<e>>
    ELSE IF Head(sorted).size > e.size
         THEN <<Head(sorted)>> \o InsertBySize_TiesReversed(Tail(sorted), e)
         ELSE <<e>> \o sorted

RECURSIVE InsertBySize(_, _)
InsertBySize(sorted, e) ==
    IF sorted = <<>> THEN <<e>>
    ELSE IF Head(sorted).size >= e.size
         THEN <<Head(sorted)>> \o InsertBySize(Tail(sorted), e)
         ELSE <<e>> \o sorted

RECURSIVE SortedBySize(_)
SortedBySize(items) ==
    IF items = <<>> THEN <<>>
    ELSE InsertBySize(SortedBySize(SubSeq(items, 1, Len(items) - 1)),
                      items[Len(items)])

SymbolLines(symbols) == [i \in 1..Len(symbols) |-> SymbolLine(symbols[i])]

\* The report of one frame: the lines printed, the sorted symbols behind the
\* symbol lines, whether frame.block() was called, and whether an exception
\* left analyze_frame.
Report(lines, symbols, asked_block, raised) ==
    [lines |-> lines, symbols |-> symbols, asked_block |-> asked_block,
     raised |-> raised]

\* mutant: the RuntimeError of frame.block() is not caught
BlockFailure_Uncaught(head) == Report(head, <<>>, TRUE, TRUE)

\* lines 52-56: frame.block() raising RuntimeError is caught and reported
BlockFailure(head) == Report(head \o <<NoBlockLine>>, <<>>, TRUE, FALSE)

\* mutant: no return after the registers, frame.block() is tried and fails
NoSymtab_FallsThrough(head) == Report(head \o <<NoBlockLine>>, <<>>, TRUE, FALSE)

\* lines 49-50: no symtab, return after the registers
NoSymtab(head) == Report(head, <<>>, FALSE, FALSE)

\* lines 58-87
ListSymbols(head, info) ==
    LET symbols == SortedBySize(CollectSymbols(info.blocks, 1, <<>>))
    IN  Report(head \o SymbolLines(symbols) \o <<BlankLine>>, symbols, TRUE, FALSE)

analyze_frame(frame_nr, frame) ==
    LET pc == FramePc(frame)
        info == debuginfo[pc]
        head == << IF info.symtab THEN HeaderLine(frame_nr, info.function)
                   ELSE FallbackLine(frame_nr) >>
                \o RegisterLines(pc)
    IN  IF ~info.symtab THEN NoSymtab(head)
        ELSE IF ~info.block_ok THEN BlockFailure(head)
        ELSE ListSymbols(head, info)

-----------------------------------------------------------------------------
(* StackVisualizer.invoke *)

\* A command argument: ok is whether gdb.parse_and_eval accepts it, val is
\* the integer it evaluates to.
Argument(ok, val) == [ok |-> ok, val |-> val]

\* what a command, or a part of it, did
Outcome(st, lines, made) == [status |-> st, out |-> lines, calls |-> made]

\* while frame: backtrace.append(frame); frame = frame.older()
RECURSIVE Backtrace(_)
Backtrace(frame) ==
    IF frame = None THEN <<>> ELSE <<frame>> \o Backtrace(Older(frame))

\* the body of the for loop for one frame: lines 120-121
Visit(frame_nr, frame, fstart) ==
    IF frame_nr >= fstart
    THEN LET report == analyze_frame(frame_nr, frame)
         IN  Outcome(IF report.raised THEN "raised" ELSE "returned",
                     report.lines,
                     << [frame_nr |-> frame_nr, frame |-> frame,
                         asked_block |-> report.asked_block,
                         symbols |-> report.symbols] >>)
    ELSE Outcome("returned", <<>>, <<>>)

\* for frame_nr, frame in enumerate(backtrace): ... if frame_nr >= fend: break
RECURSIVE Enumerate(_, _, _, _)
Enumerate(backtrace, frame_nr, fstart, fend) ==
    IF frame_nr >= Len(backtrace) THEN Outcome("returned", <<>>, <<>>)
    ELSE LET here == Visit(frame_nr, backtrace[frame_nr + 1], fstart)
         IN  IF here.status = "raised" \/ frame_nr >= fend THEN here
             ELSE LET rest == Enumerate(backtrace, frame_nr + 1, fstart, fend)
                  IN  Outcome(rest.status, here.out \o rest.out,
                              here.calls \o rest.calls)

\* lines 114-123
Inspect(fstart, fend) ==
    LET done == Enumerate(Backtrace(0), 0, fstart, fend)
    IN  Outcome(done.status, <<BlankLine>> \o done.out, done.calls)

\* gdb.parse_and_eval raising gdb.error leaves invoke before anything is printed
Raised == Outcome("raised", <<>>, <<>>)

\* lines 105-112: the range [fstart, fend] of the arguments, ok being
\* whether every argument that is evaluated evaluates
Range(a) ==
    IF Len(a) > 1
    THEN [ok |-> a[1].ok /\ a[2].ok, fstart |-> a[1].val,
          fend |-> a[1].val + a[2].val - 1]
    ELSE IF Len(a) > 0
    THEN [ok |-> a[1].ok, fstart |-> 0, fend |-> a[1].val - 1]
    ELSE [ok |-> TRUE, fstart |-> 0, fend |-> DefaultFEnd]

\* lines 97-101
NoStack == Outcome("returned", <<NoStackLine>>, <<>>)

\* mutant: the arguments are evaluated before the selected frame is asked for
invoke_ArgumentsFirst(a) ==
    IF ~Range(a).ok THEN Raised
    ELSE IF ~HasSelectedFrame THEN NoStack
    ELSE Inspect(Range(a).fstart, Range(a).fend)

invoke(a) ==
    IF ~HasSelectedFrame THEN NoStack
    ELSE IF ~Range(a).ok THEN Raised
    ELSE Inspect(Range(a).fstart, Range(a).fend)

-----------------------------------------------------------------------------
(* The driver's specification: the debuggee calls and returns, and the     *)
(* command is given at any stop with any arguments.                        *)

Pcs == DOMAIN Program

Arguments ==
    {Argument(TRUE, v) : v \in (0 - MaxArg)..MaxArg} \cup {Argument(FALSE, 0)}

Argvs == {<<>>} \cup {<<x>> : x \in Arguments}
            \cup {<<x, y>> : x \in Arguments, y \in Arguments}

Idle ==
    /\ argv = <<>>
    /\ status = "idle"
    /\ out = <<>>
    /\ calls = <<>>
    /\ ncalls = 0
    /\ lastnr = None

Init ==
    /\ debuginfo = Program
    /\ stack = <<>>
    /\ recursion = 0
    /\ Idle

\* the debuggee runs on: what the last command showed is gone
Resume ==
    /\ argv' = <<>>
    /\ status' = "idle"
    /\ out' = <<>>
    /\ calls' = <<>>
    /\ ncalls' = 0
    /\ lastnr' = None

\* the debuggee calls into pc and stops there
Call(pc) ==
    /\ Len(stack) < MaxFrames
    /\ stack' = <<pc>> \o stack
    /\ Resume
    /\ UNCHANGED <<debuginfo, recursion>>

\* the innermost frame returns
Return ==
    /\ stack # <<>>
    /\ stack' = Tail(stack)
    /\ Resume
    /\ UNCHANGED <<debuginfo, recursion>>

\* (gdb) stack-inspector a, given once at each stop: nothing of a command
\* outlives it, so a second command at the same stop behaves as the first
Invoke(a) ==
    /\ status = "idle"
    /\ \E done \in {invoke(a)} :
        /\ argv' = a
        /\ status' = done.status
        /\ out' = done.out
        /\ calls' = done.calls
        /\ ncalls' = Len(done.calls)
        /\ lastnr' = IF done.calls = <<>> THEN None
                     ELSE done.calls[Len(done.calls)].frame_nr
        /\ UNCHANGED <<debuginfo, stack, recursion>>

Next ==
    \/ \E pc \in Pcs : Call(pc)
    \/ Return
    \/ \E a \in Argvs : Invoke(a)

Spec == Init /\ [][Next]_vars

-----------------------------------------------------------------------------
(* Reading the outcome of a command *)

\* the frame numbers analyze_frame was called with, in call order
FrameNrs == [k \in 1..Len(calls) |-> calls[k].frame_nr]

\* the frame numbers lo, lo+1, ..., hi in increasing order (none when hi < lo)
Ascending(lo, hi) == [k \in 1..Max(0, hi - lo + 1) |-> lo + k - 1]

\* a command with arguments that evaluate ran on a stack and returned
Ran(n) == status = "returned" /\ HasSelectedFrame /\ Len(argv) = n

IsHead(line) == line.kind \in {"header", "fallback"}

\* where in out the report of each analyzed frame starts
HeadPositions == SelectSeq([i \in 1..Len(out) |-> i], LAMBDA i : IsHead(out[i]))

\* the lines printed by the k-th call of analyze_frame
Segment(k) ==
    SubSeq(out, HeadPositions[k],
           IF k < Len(HeadPositions) THEN HeadPositions[k + 1] - 1 ELSE Len(out))

InfoOf(call) == debuginfo[FramePc(call.frame)]

-----------------------------------------------------------------------------
(* Claims about the driver *)

\* C1: with the single argument N on a backtrace of length L >= 1,
\* analyze_frame is called on exactly the frames 0..min(N,L)-1, in
\* increasing order; so on no frame when N <= 0.
C1_SingleArgument ==
    Ran(1) => FrameNrs = Ascending(0, Min(argv[1].val, Depth) - 1)

\* C2: with the arguments start count on a backtrace of length L >= 1,
\* analyze_frame is called on exactly the frames of
\* [start, start+count-1] intersected with [0, L-1], each once, in
\* increasing order; so on no frame when the intersection is empty.
C2_StartCount ==
    Ran(2) => FrameNrs = Ascending(Max(argv[1].val, 0),
                                   Min(argv[1].val + argv[2].val - 1, Depth - 1))

\* C4: with no selected frame the command prints exactly one line, whatever
\* its arguments (malformed ones too): it evaluates no argument, so it does
\* not raise, and it calls analyze_frame on no frame.
C4_NoStack ==
    (status # "idle" /\ ~HasSelectedFrame)
        => /\ status = "returned"
           /\ out = <<NoStackLine>>
           /\ calls = <<>>

C4_Witness ==
    /\ ~HasSelectedFrame
    /\ status = "returned"
    /\ Len(argv) = 2
    /\ ~argv[1].ok

\* C8: a frame without symtab gets the fallback header and the three
\* register lines and nothing else, its lexical block is never requested,
\* and the driver goes on to the next frame of the range.
C8_NoSymtab ==
    status # "idle" =>
        \A k \in 1..Len(calls) :
            ~InfoOf(calls[k]).symtab =>
                /\ Len(HeadPositions) = Len(calls)
                /\ Segment(k) = <<FallbackLine(calls[k].frame_nr)>>
                                    \o RegisterLines(FramePc(calls[k].frame))
                /\ ~calls[k].asked_block
                /\ status = "returned"
                /\ (calls[k].frame_nr < Range(argv).fend
                        /\ calls[k].frame_nr + 1 < Depth)
                    => /\ k < Len(calls)
                       /\ calls[k + 1].frame_nr = calls[k].frame_nr + 1

C8_Witness ==
    /\ status = "returned"
    /\ \E k \in 1..Len(calls) :
        /\ ~InfoOf(calls[k]).symtab
        /\ InfoOf(calls[k]).blocks # <<>>
        /\ k < Len(calls)

\* C9: when frame.block() fails for a frame of the range, that frame gets
\* its header, its registers and one failure message and no symbol line,
\* and the command goes on: every later frame of the range is analyzed, in
\* order, and reported as it is on its own.
C9_BlockFailure ==
    status # "idle" =>
        \A k \in 1..Len(calls) :
            (InfoOf(calls[k]).symtab /\ ~InfoOf(calls[k]).block_ok) =>
                /\ Len(HeadPositions) = Len(calls)
                /\ Segment(k) =
                       <<HeaderLine(calls[k].frame_nr, InfoOf(calls[k]).function)>>
                           \o RegisterLines(FramePc(calls[k].frame))
                           \o <<NoBlockLine>>
                /\ status = "returned"
                /\ \A nr \in (calls[k].frame_nr + 1)..(Depth - 1) :
                       (nr >= Range(argv).fstart /\ nr <= Range(argv).fend)
                           => /\ k + nr - calls[k].frame_nr <= Len(calls)
                              /\ LET later == k + nr - calls[k].frame_nr
                                 IN  /\ calls[later].frame_nr = nr
                                     /\ calls[later].frame = nr
                                     /\ Segment(later) = analyze_frame(nr, nr).lines

C9_Witness ==
    /\ status = "returned"
    /\ \E k \in 1..Len(calls) :
        /\ InfoOf(calls[k]).symtab
        /\ ~InfoOf(calls[k]).block_ok
        /\ k + 1 < Len(calls)
        /\ InfoOf(calls[k + 1]).symtab
        /\ InfoOf(calls[k + 1]).block_ok

-----------------------------------------------------------------------------
(* Deep stacks.  A backtrace of a million frames cannot be walked frame by *)
(* frame here, so this specification keeps the two counters only and takes *)
(* the loop of lines 119-123 in one step: iteration frame_nr runs when no  *)
(* earlier iteration broke, that is when frame_nr = 0 or frame_nr <= fend, *)
(* and it calls analyze_frame when frame_nr >= fstart.  LoopAgrees checks  *)
(* this summary against the loop itself on the stacks of Spec.             *)

\* the frames the loop analyzes on a backtrace of length depth >= 1
Analyzed(depth, fstart, fend) ==
    LET first == Max(fstart, 0)
        last == Min(Max(fend, 0), depth - 1)
    IN  [first |-> first, last |-> last, count |-> Max(0, last - first + 1)]

LoopAgrees ==
    (status = "returned" /\ HasSelectedFrame) =>
        LET a == Analyzed(Depth, Range(argv).fstart, Range(argv).fend)
        IN  /\ FrameNrs = Ascending(a.first, a.last)
            /\ ncalls = a.count
            /\ lastnr = IF a.count = 0 THEN None ELSE a.last

\* the debuggee recurses without end and stops in a stack overflow
RunAway ==
    /\ recursion = 0
    /\ \E over \in 0..2 : recursion' = DefaultFEnd + over
    /\ Resume
    /\ UNCHANGED <<debuginfo, stack>>

\* the recursion unwinds
Unwind ==
    /\ recursion > 0
    /\ recursion' = 0
    /\ Resume
    /\ UNCHANGED <<debuginfo, stack>>

\* (gdb) stack-inspector a, the counters only
InvokeDeep(a) ==
    LET range == Range(a)
        done == Analyzed(Depth, range.fstart, range.fend)
        ran == HasSelectedFrame /\ range.ok
    IN  /\ status = "idle"
        /\ argv' = a
        /\ status' = IF HasSelectedFrame /\ ~range.ok THEN "raised" ELSE "returned"
        /\ ncalls' = IF ran THEN done.count ELSE 0
        /\ lastnr' = IF ran /\ done.count > 0 THEN done.last ELSE None
        /\ UNCHANGED <<debuginfo, stack, recursion, out, calls>>

NextDeep ==
    \/ \E pc \in Pcs : Call(pc)
    \/ Return
    \/ RunAway
    \/ Unwind
    \/ \E a \in Argvs : InvokeDeep(a)

SpecDeep == Init /\ [][NextDeep]_vars

\* C3: with no arguments on a backtrace of length L, analyze_frame is
\* called on exactly the frames 0..L-1, each once, in increasing order, and
\* the frame number passed with a frame is its distance from the selected
\* frame.  (The counters state it for every stack; the log of calls states
\* the order and the distances where the calls are logged.)
C3_NoArguments ==
    (status = "returned" /\ argv = <<>>) =>
        /\ ncalls = Depth
        /\ lastnr = Depth - 1
        /\ Len(calls) = ncalls =>
            /\ FrameNrs = Ascending(0, Depth - 1)
            /\ \A k \in 1..Len(calls) : calls[k].frame = calls[k].frame_nr

-----------------------------------------------------------------------------
(* The specification of one frame: the debuggee is stopped in a function   *)
(* whose lexical blocks and declarations are built up in every way, and    *)
(* the command is given at each.  The chain of a frame is its local        *)
(* blocks, innermost first, then the static block and the global block of  *)
(* the file.                                                               *)

Names == {"a", "b"}

\* what a local block can declare
LocalSymbols ==
    UNION { {Arg(n, t), StaticArg(n, t), Local(n, t), StaticVar(n, t), Typedef(n, t)} :
            <<n, t>> \in Names \X Types }

\* what a static or global block can declare that is a variable: a variable
\* at a fixed address, or a thread-local one (located by an expression)
FileSymbols ==
    UNION { {StaticVar(n, "int"), Local(n, "int")} : n \in Names }

Declarable(block) == IF IsFileLevel(block) THEN FileSymbols ELSE LocalSymbols

StudyPc == "f"

StudyBlocks == debuginfo[StudyPc].blocks

RECURSIVE CountSymbols(_)
CountSymbols(blocks) ==
    IF blocks = <<>> THEN 0
    ELSE Len(Head(blocks).symbols) + CountSymbols(Tail(blocks))

InitFrame ==
    /\ debuginfo = [pc \in {StudyPc} |->
                        FrameInfo("f", TRUE, TRUE,
                                  << LocalBlock(<<>>), StaticBlock(<<>>),
                                     GlobalBlock(<<>>) >>)]
    /\ stack = <<StudyPc>>
    /\ recursion = 0
    /\ Idle

\* the function has one more declaration, in the b-th block of the chain
Declare(b, sym) ==
    /\ CountSymbols(StudyBlocks) < MaxSyms
    /\ sym \in Declarable(StudyBlocks[b])
    /\ debuginfo' = [debuginfo EXCEPT ![StudyPc].blocks[b].symbols = Append(@, sym)]
    /\ Resume
    /\ UNCHANGED <<stack, recursion>>

\* the debuggee is stopped one local block further in
EnterBlock ==
    /\ Len(StudyBlocks) - 2 < MaxLocalBlocks
    /\ debuginfo' = [debuginfo EXCEPT ![StudyPc].blocks = <<LocalBlock(<<>>)>> \o @]
    /\ Resume
    /\ UNCHANGED <<stack, recursion>>

NextFrame ==
    \/ \E b \in 1..Len(StudyBlocks) : \E sym \in Declarable(StudyBlocks[b]) :
            Declare(b, sym)
    \/ EnterBlock
    \/ Invoke(<<>>)

SpecFrame == InitFrame /\ [][NextFrame]_vars

-----------------------------------------------------------------------------
(* Claims about the symbol list of a frame *)

\* the symbol lines the k-th call of analyze_frame printed
Listed(k) == SelectSeq(Segment(k), LAMBDA line : line.kind = "symbol")

\* every declaration of a chain of blocks in the order the walk meets them:
\* innermost block first, each block in its own order
RECURSIVE DeclarationsFrom(_, _)
DeclarationsFrom(blocks, b) ==
    IF b > Len(blocks) THEN <<>>
    ELSE [i \in 1..Len(blocks[b].symbols) |->
            [block |-> b, symbol |-> blocks[b].symbols[i]]]
         \o DeclarationsFrom(blocks, b + 1)

\* the declarations of a name that the walk collects: those of local blocks
\* that are arguments or variables not at a fixed address
CollectedOf(blocks, name) ==
    SelectSeq(DeclarationsFrom(blocks, 1),
              LAMBDA d : /\ d.symbol.name = name
                         /\ ~IsFileLevel(blocks[d.block])
                         /\ IsOnStack(d.symbol))

\* where a name stands in a sequence of entries or lines with distinct names
Place(entries, name) == CHOOSE p \in 1..Len(entries) : entries[p].name = name

Occurrences(seq, x) == Cardinality({i \in 1..Len(seq) : seq[i] = x})

C6_NoStaticSymbols ==
    status # "idle" =>
        \A k \in 1..Len(calls) :
            /\ Listed(k) = SymbolLines(calls[k].symbols)
            /\ \A i \in 1..Len(calls[k].symbols) :
                LET e == calls[k].symbols[i]
                IN  /\ ~IsFileLevel(InfoOf(calls[k]).blocks[e.block])
                    /\ e.symbol.addr_class # SYMBOL_LOC_STATIC

\* C7: the symbol lines of a frame are in non-increasing order of size and
\* are a permutation of the collected symbols: the sort adds none and drops
\* none.
C7_SortedPermutation ==
    status # "idle" =>
        \A k \in 1..Len(calls) :
            calls[k].asked_block /\ InfoOf(calls[k]).block_ok =>
                LET lines == Listed(k)
                    collected == SymbolLines(CollectSymbols(InfoOf(calls[k]).blocks,
                                                            1, <<>>))
                IN  /\ \A i \in 1..(Len(lines) - 1) : lines[i].size >= lines[i + 1].size
                    /\ Len(lines) = Len(collected)
                    /\ \A i \in 1..Len(collected) :
                            Occurrences(lines, collected[i])
                                = Occurrences(collected, collected[i])

C7_Witness ==
    /\ status = "returned"
    /\ \E k \in 1..Len(calls) :
        /\ Len(Listed(k)) > 1
        /\ Listed(k)[1].size > Listed(k)[2].size
        /\ Listed(k) # SymbolLines(CollectSymbols(InfoOf(calls[k]).blocks, 1, <<>>))

\* C10: symbols of equal size keep, in the printed list, the order in which
\* they were first collected (innermost block first, then the order within
\* a block), although the sort is descending.
C10_StableTies ==
    status # "idle" =>
        \A k \in 1..Len(calls) :
            calls[k].asked_block /\ InfoOf(calls[k]).block_ok =>
                LET lines == Listed(k)
                    collected == CollectSymbols(InfoOf(calls[k]).blocks, 1, <<>>)
                IN  \A i, j \in 1..Len(lines) :
                        (i < j /\ lines[i].size = lines[j].size) =>
                            /\ \E p \in 1..Len(collected) : collected[p].name = lines[i].name
                            /\ \E p \in 1..Len(collected) : collected[p].name = lines[j].name
                            /\ Place(collected, lines[i].name)
                                   < Place(collected, lines[j].name)

C10_Witness ==
    /\ status = "returned"
    /\ \E k \in 1..Len(calls) : \E i, j \in 1..Len(Listed(k)) :
        /\ i < j
        /\ Listed(k)[i].size = Listed(k)[j].size
        /\ Listed(k)[i].name # Listed(k)[j].name

====
